---- MODULE Spec2Model ----
(***************************************************************************)
(* Window manager core of the Wiqnnc_ desktop shell: the window registry   *)
(* (state.windows, state.activeWindowId, state.nextZIndex), the close      *)
(* grace timers, and the dock derived from the registry.                   *)
(*                                                                         *)
(* A window id is `${baseAppId}-${Date.now()}`: the pair <<app, clock>>.   *)
(* The DOM element of a window is folded into its record: style is the     *)
(* element's inline top/left/width/height in px (0 = not set), focused is  *)
(* the element's 'focused' class; the 'open'/'closing', 'minimized' and    *)
(* 'maximized' classes always mirror isOpen, isMinimized and isMaximized.  *)
(* Menu-bar texts and the window menu are display only and not modelled.   *)
(*                                                                         *)
(* pointer is the drag or resize session between a mousedown on a title    *)
(* bar or resize handle and the mouseup: the closure variables of the      *)
(* handlers makeDraggable and makeResizable install on document.           *)
(* The element's offsetLeft/offsetTop/offsetWidth/offsetHeight are its     *)
(* inline left/top/width/height; calc() lengths are resolved against the   *)
(* viewport.                                                               *)
(* desktop holds the user-created desktop items: items is the ids in       *)
(* state.dynamicDesktopItems, el the inline left/top of each icon element, *)
(* current the currentX/currentY of each item definition, stored what      *)
(* saveDynamicDesktopItems wrote last, draggedIconInfo the state field of  *)
(* that name and isOverTrash the closure variable of the icon's handlers.  *)
(* markers holds the drag-in-progress classes: grabbing is the 'grabbing'  *)
(* class of document.body and isDragging the ids of the elements that     *)
(* carry 'is-dragging'.                                                    *)
(* sessions counts the drag and resize sessions begun and zLimit is the    *)
(* ceiling of nextZIndex in the behaviour: both only bound the search.     *)
(***************************************************************************)
EXTENDS Integers, Sequences, FiniteSets, TLC

VARIABLES windows, activeWindowId, nextZIndex, dock, timers, now, lastOp,
          isDockVisible, pointer, sessions, zLimit, markers, desktop

vars == <<windows, activeWindowId, nextZIndex, dock, timers, now, lastOp,
          isDockVisible, pointer, sessions, zLimit, markers, desktop>>

(* ---- bounds of the model ---- *)
(* MaxClock bounds the Date.now() readings, and so the windows ever created *)
MaxClock == 2
MaxZIndex == 104
MaxTimers == 1
(* MaxScenarioZIndex bounds nextZIndex where two windows are opened and
   focused in turn *)
MaxScenarioZIndex == 105
(* MaxSessions bounds the drag and resize sessions of one behaviour *)
MaxSessions == 2

(* ---- program constants ---- *)
InitialZIndex == 100

(* Math.random() in halves: the draw for x is 1/2, the draw for y is 0 *)
RandomX == {1}

RandomY == {0}

(* createWindow reads Date.now() later than the createWindow before it did *)
ClockSteps == {1}

(* ---- APP_DEFINITIONS (the entries the model uses) ---- *)
Apps == {"Settings", "MusicPlayer", "Notepad", "StickyNotes"}

allowMultipleInstances(app) == app \in {"Notepad", "StickyNotes"}

isEssentialDock(app) == app = "Settings"

defaultWidth(app) ==
  CASE app = "Settings" -> 500
    [] app = "MusicPlayer" -> 350
    [] app = "StickyNotes" -> 250
    [] OTHER -> 0

defaultHeight(app) ==
  CASE app = "Settings" -> 480
    [] app = "MusicPlayer" -> 380
    [] app = "StickyNotes" -> 250
    [] OTHER -> 0

(* setupMusicPlayerApp stores an audioPlayer in appSpecificState *)
hasAudioPlayer(app) == app = "MusicPlayer"

(* ---- values ---- *)
null == <<"null", 0>>

(* the apps each specification opens *)
SpecApps == {"Settings", "Notepad"}

StaleApps == {"Notepad"}

ThrowApps == {"MusicPlayer"}

ScenarioApps == {"Settings", "MusicPlayer"}

ClockApps == {"Notepad", "Settings"}

PointerApps == {"Settings", "StickyNotes"}

IconApps == {"Settings"}

IdsOf(apps) == apps \X (0..MaxClock)

NoPosition == [top |-> -1, left |-> -1, width |-> -1, height |-> -1]

NoWindow ==
  [baseAppId |-> "null", isMinimized |-> FALSE, isOpen |-> FALSE, zIndex |-> 0,
   isMaximized |-> FALSE, originalPosition |-> NoPosition,
   style |-> NoPosition, focused |-> FALSE, isSnapping |-> "none"]

State ==
  [windows |-> windows, activeWindowId |-> activeWindowId,
   nextZIndex |-> nextZIndex, dock |-> dock, timers |-> timers, now |-> now,
   isDockVisible |-> isDockVisible, markers |-> markers, desktop |-> desktop]

(* mutant: the instance lookup also skips minimized windows *)
OpenWindowsOf_VisibleOnly(S, app) ==
  {id \in DOMAIN S.windows :
     /\ S.windows[id].baseAppId = app
     /\ S.windows[id].isOpen
     /\ ~S.windows[id].isMinimized}

OpenWindowsOf(S, app) ==
  {id \in DOMAIN S.windows : S.windows[id].baseAppId = app /\ S.windows[id].isOpen}

(* ---- dock ---- *)
(* mutant: an application that is not essential needs the focus for its mark *)
updateAllDockActiveStates_FocusOrEssential(S, app) ==
  LET isActiveFocus ==
        /\ S.activeWindowId \in DOMAIN S.windows
        /\ S.windows[S.activeWindowId].baseAppId = app
        /\ ~S.windows[S.activeWindowId].isMinimized
      anyInstanceOpen == OpenWindowsOf(S, app) # {}
  IN \/ isActiveFocus
     \/ isEssentialDock(app) /\ anyInstanceOpen
     \/ /\ anyInstanceOpen
        /\ \A id \in OpenWindowsOf(S, app) : S.windows[id].isMinimized

updateAllDockActiveStates(S, app) ==
  LET isAppRunningOrEssential ==
        \E id \in DOMAIN S.windows :
          /\ S.windows[id].baseAppId = app
          /\ S.windows[id].isOpen
          /\ ~S.windows[id].isMinimized
      isActiveFocus ==
        /\ S.activeWindowId \in DOMAIN S.windows
        /\ S.windows[S.activeWindowId].baseAppId = app
        /\ ~S.windows[S.activeWindowId].isMinimized
      showDot0 ==
        IF isEssentialDock(app)
        THEN isActiveFocus \/ isAppRunningOrEssential
        ELSE isAppRunningOrEssential
      anyInstanceOpen == OpenWindowsOf(S, app) # {}
      showDot ==
        IF /\ ~isActiveFocus
           /\ \A id \in OpenWindowsOf(S, app) : S.windows[id].isMinimized
           /\ anyInstanceOpen
        THEN TRUE
        ELSE showDot0
  IN showDot \/ isActiveFocus

renderDock(S) ==
  [S EXCEPT !.dock =
     [app \in Apps |->
        [shown |-> isEssentialDock(app) \/ OpenWindowsOf(S, app) # {},
         active |-> updateAllDockActiveStates(S, app)]]]

(* ---- window registry ---- *)
(* mutant: the raised window takes nextZIndex without consuming it *)
focusWindow_NoIncrement(S, id) ==
  IF id = null \/ id \notin DOMAIN S.windows
  THEN renderDock([S EXCEPT !.activeWindowId = null])
  ELSE LET windowData == S.windows[id] IN
       IF /\ S.activeWindowId = id
          /\ windowData.zIndex = S.nextZIndex - 1
          /\ ~windowData.isMinimized
       THEN S
       ELSE renderDock(
              [S EXCEPT
                 !.activeWindowId = id,
                 !.windows =
                    [w \in DOMAIN S.windows |->
                       IF w = id
                       THEN [S.windows[w] EXCEPT !.zIndex = S.nextZIndex,
                                                 !.focused = TRUE]
                       ELSE [S.windows[w] EXCEPT !.focused = FALSE]]])

(* mutant: focus is moved but the window is not raised *)
focusWindow_NoRaise(S, id) ==
  IF id = null \/ id \notin DOMAIN S.windows
  THEN renderDock([S EXCEPT !.activeWindowId = null])
  ELSE LET windowData == S.windows[id] IN
       IF /\ S.activeWindowId = id
          /\ windowData.zIndex = S.nextZIndex - 1
          /\ ~windowData.isMinimized
       THEN S
       ELSE renderDock(
              [S EXCEPT
                 !.activeWindowId = id,
                 !.windows =
                    [w \in DOMAIN S.windows |->
                       IF w = id
                       THEN [S.windows[w] EXCEPT !.focused = TRUE]
                       ELSE [S.windows[w] EXCEPT !.focused = FALSE]]])

(* mutant: the early return for the window that is already in front is left out *)
focusWindow_AlwaysRaises(S, id) ==
  IF id = null \/ id \notin DOMAIN S.windows
  THEN renderDock([S EXCEPT !.activeWindowId = null])
  ELSE renderDock(
         [S EXCEPT
            !.activeWindowId = id,
            !.nextZIndex = @ + 1,
            !.windows =
               [w \in DOMAIN S.windows |->
                  IF w = id
                  THEN [S.windows[w] EXCEPT !.zIndex = S.nextZIndex,
                                            !.focused = TRUE]
                  ELSE [S.windows[w] EXCEPT !.focused = FALSE]]])

focusWindow(S, id) ==
  IF id = null \/ id \notin DOMAIN S.windows
  THEN renderDock([S EXCEPT !.activeWindowId = null])
  ELSE LET windowData == S.windows[id] IN
       IF /\ S.activeWindowId = id
          /\ windowData.zIndex = S.nextZIndex - 1
          /\ ~windowData.isMinimized
       THEN S
       ELSE renderDock(
              [S EXCEPT
                 !.activeWindowId = id,
                 !.nextZIndex = @ + 1,
                 !.windows =
                    [w \in DOMAIN S.windows |->
                       IF w = id
                       THEN [S.windows[w] EXCEPT !.zIndex = S.nextZIndex,
                                                 !.focused = TRUE]
                       ELSE [S.windows[w] EXCEPT !.focused = FALSE]]])

(* throws: the teardown of appSpecificState raises before setTimeout runs *)
closeWindow(S, id, throws) ==
  IF id \in DOMAIN S.windows
  THEN LET S1 == [S EXCEPT !.windows[id].isOpen = FALSE] IN
       IF throws
       THEN S1
       ELSE [S1 EXCEPT !.timers = Append(@, [id |-> id, at |-> S.now])]
  ELSE S

(* mutant: the record is removed but the focus is left on its id *)
closeTimer_KeepsFocus(S) ==
  LET id == Head(S.timers).id
      S1 == [S EXCEPT
               !.timers = Tail(@),
               !.markers.isDragging = @ \ {id},
               !.windows = [w \in DOMAIN S.windows \ {id} |-> S.windows[w]]]
  IN renderDock(S1)

(* mutant: after the removal a window that is left is made the active one *)
closeTimer_ActivatesRemaining(S) ==
  LET id == Head(S.timers).id
      left == DOMAIN S.windows \ {id}
      S1 == [S EXCEPT
               !.timers = Tail(@),
               !.markers.isDragging = @ \ {id},
               !.windows = [w \in left |-> S.windows[w]]]
  IN renderDock([S1 EXCEPT !.activeWindowId =
                   IF left # {} THEN CHOOSE w \in left : TRUE ELSE null])

(* mutant: the callback clears the focus whichever window holds it *)
closeTimer_AlwaysClearsFocus(S) ==
  LET id == Head(S.timers).id
      S1 == [S EXCEPT
               !.timers = Tail(@),
               !.markers.isDragging = @ \ {id},
               !.windows = [w \in DOMAIN S.windows \ {id} |-> S.windows[w]]]
  IN renderDock(focusWindow(S1, null))

(* the callback closeWindow hands to setTimeout, for the timer at the head *)
closeTimer(S) ==
  LET id == Head(S.timers).id
      S1 == [S EXCEPT
               !.timers = Tail(@),
               !.markers.isDragging = @ \ {id},
               !.windows = [w \in DOMAIN S.windows \ {id} |-> S.windows[w]]]
      S2 == IF S1.activeWindowId = id THEN focusWindow(S1, null) ELSE S1
  IN renderDock(S2)

(* mutant: the minimized window keeps the focus *)
minimizeWindow_KeepsFocus(S, id) ==
  IF id \in DOMAIN S.windows /\ ~S.windows[id].isMinimized
  THEN renderDock([S EXCEPT
                     !.windows[id].originalPosition = S.windows[id].style,
                     !.windows[id].isMaximized = FALSE,
                     !.windows[id].isMinimized = TRUE])
  ELSE S

(* mutant: minimizing a maximized window snapshots the maximized origin *)
minimizeWindow_SavesMaximizedOrigin(S, id) ==
  IF id \in DOMAIN S.windows /\ ~S.windows[id].isMinimized
  THEN LET S1 == [S EXCEPT
                    !.windows[id].originalPosition =
                       IF S.windows[id].isMaximized
                       THEN [S.windows[id].style EXCEPT !.top = 0, !.left = 0]
                       ELSE S.windows[id].style,
                    !.windows[id].isMaximized = FALSE,
                    !.windows[id].isMinimized = TRUE]
           S2 == IF S1.activeWindowId = id THEN focusWindow(S1, null) ELSE S1
       IN renderDock(S2)
  ELSE S

(* mutant: the snapshot is stored with top and left exchanged *)
minimizeWindow_SavesSwapped(S, id) ==
  IF id \in DOMAIN S.windows /\ ~S.windows[id].isMinimized
  THEN LET el == S.windows[id].style
           S1 == [S EXCEPT
                    !.windows[id].originalPosition =
                       [top |-> el.left, left |-> el.top,
                        width |-> el.width, height |-> el.height],
                    !.windows[id].isMaximized = FALSE,
                    !.windows[id].isMinimized = TRUE]
           S2 == IF S1.activeWindowId = id THEN focusWindow(S1, null) ELSE S1
       IN renderDock(S2)
  ELSE S

minimizeWindow(S, id) ==
  IF id \in DOMAIN S.windows /\ ~S.windows[id].isMinimized
  THEN LET S1 == [S EXCEPT
                    !.windows[id].originalPosition = S.windows[id].style,
                    !.windows[id].isMaximized = FALSE,
                    !.windows[id].isMinimized = TRUE]
           S2 == IF S1.activeWindowId = id THEN focusWindow(S1, null) ELSE S1
       IN renderDock(S2)
  ELSE S

(* mutant: un-maximizing writes originalPosition.left into style.top *)
toggleMaximizeWindow_WrongTop(S, id) ==
  IF id \in DOMAIN S.windows
  THEN LET windowData == S.windows[id] IN
       IF windowData.isMaximized
       THEN [S EXCEPT
               !.windows[id].style =
                  IF windowData.originalPosition # NoPosition
                  THEN [windowData.originalPosition EXCEPT
                          !.top = windowData.originalPosition.left]
                  ELSE @,
               !.windows[id].isMaximized = FALSE]
       ELSE [S EXCEPT
               !.windows[id].originalPosition = windowData.style,
               !.windows[id].isMaximized = TRUE]
  ELSE S

toggleMaximizeWindow(S, id) ==
  IF id \in DOMAIN S.windows
  THEN LET windowData == S.windows[id] IN
       IF windowData.isMaximized
       THEN [S EXCEPT
               !.windows[id].style =
                  IF windowData.originalPosition # NoPosition
                  THEN windowData.originalPosition
                  ELSE @,
               !.windows[id].isMaximized = FALSE]
       ELSE [S EXCEPT
               !.windows[id].originalPosition = windowData.style,
               !.windows[id].isMaximized = TRUE]
  ELSE S

RECURSIVE restoreWindow(_, _, _)
RECURSIVE openApp(_, _, _)
RECURSIVE createWindow(_, _, _)

(* mutant: the restored window is focused but stays flagged minimized *)
restoreWindow_StaysMinimized(S, id, env) ==
  IF id \in DOMAIN S.windows /\ S.windows[id].isMinimized
  THEN focusWindow(S, id)
  ELSE IF id \in DOMAIN S.windows /\ ~S.windows[id].isOpen
  THEN openApp(S, S.windows[id].baseAppId, env)
  ELSE IF id \in DOMAIN S.windows
  THEN focusWindow(S, id)
  ELSE S

(* mutant: restoring a record marked closed opens that record again *)
restoreWindow_ReopensClosing(S, id, env) ==
  IF id \in DOMAIN S.windows /\ S.windows[id].isMinimized
  THEN LET windowData == S.windows[id]
           S1 == [S EXCEPT
                    !.windows[id].style =
                       IF windowData.originalPosition # NoPosition
                       THEN windowData.originalPosition
                       ELSE @,
                    !.windows[id].isMinimized = FALSE]
       IN focusWindow(S1, id)
  ELSE IF id \in DOMAIN S.windows /\ ~S.windows[id].isOpen
  THEN focusWindow([S EXCEPT !.windows[id].isOpen = TRUE], id)
  ELSE IF id \in DOMAIN S.windows
  THEN focusWindow(S, id)
  ELSE S

(* env = [rx, ry, dt]: the two Math.random() draws of openApp, in halves, and
   how much later than the last reading createWindow reads Date.now() *)
restoreWindow(S, id, env) ==
  IF id \in DOMAIN S.windows /\ S.windows[id].isMinimized
  THEN LET windowData == S.windows[id]
           S1 == [S EXCEPT
                    !.windows[id].style =
                       IF windowData.originalPosition # NoPosition
                       THEN windowData.originalPosition
                       ELSE @,
                    !.windows[id].isMinimized = FALSE]
       IN focusWindow(S1, id)
  ELSE IF id \in DOMAIN S.windows /\ ~S.windows[id].isOpen
  THEN openApp(S, S.windows[id].baseAppId, env)
  ELSE IF id \in DOMAIN S.windows
  THEN focusWindow(S, id)
  ELSE S

(* mutant: the new window is registered but not focused *)
createWindow_NoFocus(S, options, env) ==
  IF /\ ~allowMultipleInstances(options.baseAppId)
     /\ OpenWindowsOf(S, options.baseAppId) # {}
  THEN LET existingWindow == CHOOSE id \in OpenWindowsOf(S, options.baseAppId) : TRUE
           S1 == IF S.windows[existingWindow].isMinimized
                 THEN restoreWindow(S, existingWindow, env)
                 ELSE S
       IN focusWindow(S1, existingWindow)
  ELSE LET dateNow == S.now + env.dt
           windowId == <<options.baseAppId, dateNow>>
           newWindow ==
             [baseAppId |-> options.baseAppId,
              isMinimized |-> FALSE,
              isOpen |-> TRUE,
              zIndex |-> S.nextZIndex,
              isMaximized |-> FALSE,
              originalPosition |-> NoPosition,
              style |-> [top |-> options.y, left |-> options.x,
                         width |-> options.width, height |-> options.height],
              focused |-> FALSE,
              isSnapping |-> "none"]
           S1 == [S EXCEPT
                    !.now = dateNow,
                    !.nextZIndex = @ + 1,
                    !.windows =
                       [w \in DOMAIN S.windows \cup {windowId} |->
                          IF w = windowId THEN newWindow ELSE S.windows[w]]]
       IN S1

createWindow(S, options, env) ==
  IF /\ ~allowMultipleInstances(options.baseAppId)
     /\ OpenWindowsOf(S, options.baseAppId) # {}
  THEN LET existingWindow == CHOOSE id \in OpenWindowsOf(S, options.baseAppId) : TRUE
           S1 == IF S.windows[existingWindow].isMinimized
                 THEN restoreWindow(S, existingWindow, env)
                 ELSE S
       IN focusWindow(S1, existingWindow)
  ELSE LET dateNow == S.now + env.dt
           windowId == <<options.baseAppId, dateNow>>
           newWindow ==
             [baseAppId |-> options.baseAppId,
              isMinimized |-> FALSE,
              isOpen |-> TRUE,
              zIndex |-> S.nextZIndex,
              isMaximized |-> FALSE,
              originalPosition |-> NoPosition,
              style |-> [top |-> options.y, left |-> options.x,
                         width |-> options.width, height |-> options.height],
              focused |-> FALSE,
              isSnapping |-> "none"]
           S1 == [S EXCEPT
                    !.now = dateNow,
                    !.nextZIndex = @ + 1,
                    !.windows =
                       [w \in DOMAIN S.windows \cup {windowId} |->
                          IF w = windowId THEN newWindow ELSE S.windows[w]]]
       IN focusWindow(S1, windowId)

(* mutant: an existing instance is focused without being restored *)
openApp_FocusOnly(S, appId, env) ==
  LET existingWindowsOfApp == OpenWindowsOf(S, appId) IN
  IF ~allowMultipleInstances(appId) /\ existingWindowsOfApp # {}
  THEN focusWindow(S, CHOOSE id \in existingWindowsOfApp : TRUE)
  ELSE createWindow(S,
         [baseAppId |-> appId,
          x |-> env.rx * 100 + 50 + ((Cardinality(DOMAIN S.windows) * 25) % 250),
          y |-> env.ry * 50 + 50 + ((Cardinality(DOMAIN S.windows) * 25) % 150),
          width |-> defaultWidth(appId),
          height |-> defaultHeight(appId)],
         env)

openApp(S, appId, env) ==
  LET existingWindowsOfApp == OpenWindowsOf(S, appId) IN
  IF ~allowMultipleInstances(appId) /\ existingWindowsOfApp # {}
  THEN restoreWindow(S, CHOOSE id \in existingWindowsOfApp : TRUE, env)
  ELSE createWindow(S,
         [baseAppId |-> appId,
          x |-> env.rx * 100 + 50 + ((Cardinality(DOMAIN S.windows) * 25) % 250),
          y |-> env.ry * 50 + 50 + ((Cardinality(DOMAIN S.windows) * 25) % 150),
          width |-> defaultWidth(appId),
          height |-> defaultHeight(appId)],
         env)

(* ---- drag, snap and resize ---- *)
(* desktop.clientWidth/clientHeight and the windows container: 100vw x 100vh *)
ViewportWidth == 1000

ViewportHeight == 700

(* menuBar.offsetHeight, as applySnap takes it *)
MenuBarHeight == 28

(* dock.offsetHeight + 10, as applySnap takes it *)
DockTotalHeight == 70

SnapThreshold == 20

MinResizeWidth == 300

MinResizeHeight == 200

(* clientX and clientY of the mousemove events *)
PointerXs == {10, 500, 990}

PointerYs == {40, 300, 690}

(* pointer positions at the left edge and in the middle of the desktop *)
EdgeXs == {10, 500}

EdgeYs == {300}

(* where on the title bar the mousedown lands, from the element's corner *)
GrabXs == {100}

GrabYs == {10}

Max(x, y) == IF x >= y THEN x ELSE y

Min(x, y) == IF x <= y THEN x ELSE y

SnapZone(px, py) ==
  IF px < SnapThreshold THEN "left"
  ELSE IF px > ViewportWidth - SnapThreshold THEN "right"
  ELSE IF py < MenuBarHeight + SnapThreshold THEN "top"
  ELSE "none"

showSnapIndicator(S, position) ==
  IF S.activeWindowId \in DOMAIN S.windows
  THEN [S EXCEPT !.windows[S.activeWindowId].isSnapping = position]
  ELSE S

(* mutant: the left and right rectangles keep the height the window had *)
applySnap_KeepsHeight(S, id) ==
  IF id \notin DOMAIN S.windows \/ S.windows[id].isSnapping = "none"
  THEN S
  ELSE LET dockTotalHeight == IF S.isDockVisible THEN DockTotalHeight ELSE 0
           isSnapping == S.windows[id].isSnapping
           old == S.windows[id].style
           rect ==
             CASE isSnapping = "left" ->
                    [top |-> MenuBarHeight + 2, left |-> 2,
                     width |-> ViewportWidth \div 2 - 4,
                     height |-> old.height]
               [] isSnapping = "right" ->
                    [top |-> MenuBarHeight + 2, left |-> ViewportWidth \div 2 + 2,
                     width |-> ViewportWidth \div 2 - 4,
                     height |-> old.height]
               [] OTHER ->
                    [top |-> MenuBarHeight + 2, left |-> 2,
                     width |-> ViewportWidth - 4,
                     height |-> ViewportHeight \div 2
                                - (MenuBarHeight \div 2 + dockTotalHeight \div 2 + 2)]
       IN [S EXCEPT !.windows[id].isMaximized = FALSE,
                    !.windows[id].style = rect,
                    !.windows[id].isSnapping = "none"]

applySnap(S, id) ==
  IF id \notin DOMAIN S.windows \/ S.windows[id].isSnapping = "none"
  THEN S
  ELSE LET dockTotalHeight == IF S.isDockVisible THEN DockTotalHeight ELSE 0
           isSnapping == S.windows[id].isSnapping
           rect ==
             CASE isSnapping = "left" ->
                    [top |-> MenuBarHeight + 2, left |-> 2,
                     width |-> ViewportWidth \div 2 - 4,
                     height |-> ViewportHeight - (MenuBarHeight + dockTotalHeight + 4)]
               [] isSnapping = "right" ->
                    [top |-> MenuBarHeight + 2, left |-> ViewportWidth \div 2 + 2,
                     width |-> ViewportWidth \div 2 - 4,
                     height |-> ViewportHeight - (MenuBarHeight + dockTotalHeight + 4)]
               [] OTHER ->
                    [top |-> MenuBarHeight + 2, left |-> 2,
                     width |-> ViewportWidth - 4,
                     height |-> ViewportHeight \div 2
                                - (MenuBarHeight \div 2 + dockTotalHeight \div 2 + 2)]
       IN [S EXCEPT !.windows[id].isMaximized = FALSE,
                    !.windows[id].style = rect,
                    !.windows[id].isSnapping = "none"]

(* ---- desktop icons ---- *)
(* the one user-created folder on the desktop *)
UserFolder == <<"folder", 0>>

DesktopItems == {UserFolder}

(* state.draggedIconInfo = null *)
NoInfo == [id |-> null, originalX |-> -1, originalY |-> -1]

(* offsetWidth and offsetHeight of an icon element, and the rectangle of the
   Trash dock item: layout values, any icon smaller than the container and
   any rectangle inside it *)
IconWidth == 80

IconHeight == 90

TrashLeft == 470

TrashRight == 530

TrashTop == 640

TrashBottom == 690

(* where on the icon the mousedown lands, from the element's corner *)
IconGrabXs == {40}

IconGrabYs == {45}

(* renderDesktopIcons at startup: the folder is where its definition says *)
InitialDesktop ==
  LET at == [i \in DesktopItems |-> [left |-> 200, top |-> 100]]
  IN [items |-> DesktopItems, el |-> at, current |-> at,
      stored |-> [items |-> DesktopItems, current |-> at],
      draggedIconInfo |-> NoInfo, isOverTrash |-> FALSE]

saveDynamicDesktopItems(S) ==
  [S EXCEPT !.desktop.stored =
     [items |-> S.desktop.items, current |-> S.desktop.current]]

(* the filter of state.dynamicDesktopItems, the save and renderDesktopIcons;
   no FolderView window is open *)
deleteFolder(S, i) ==
  LET left == S.desktop.items \ {i}
      S1 == [S EXCEPT
               !.desktop.items = left,
               !.desktop.current = [j \in left |-> S.desktop.current[j]]]
      S2 == saveDynamicDesktopItems(S1)
  IN [S2 EXCEPT !.desktop.el = S2.desktop.current]

(* mutant: a declined deletion leaves the icon where it was dropped *)
promptDeleteFolder_NoSnapBack(S, i, confirmation) ==
  IF confirmation THEN deleteFolder(S, i) ELSE S

(* confirmation is the answer to confirm() *)
promptDeleteFolder(S, i, confirmation) ==
  LET currentDraggedItemInfo == S.desktop.draggedIconInfo IN
  IF confirmation
  THEN deleteFolder(S, i)
  ELSE IF currentDraggedItemInfo # NoInfo /\ currentDraggedItemInfo.id = i
  THEN [S EXCEPT !.desktop.el[i] =
          [left |-> currentDraggedItemInfo.originalX,
           top |-> currentDraggedItemInfo.originalY]]
  ELSE S

(* the onmousedown of a desktop icon *)
iconDown(S, i) ==
  [S EXCEPT !.markers.grabbing = TRUE,
            !.markers.isDragging = @ \cup {i},
            !.desktop.draggedIconInfo =
               [id |-> i, originalX |-> S.desktop.el[i].left,
                originalY |-> S.desktop.el[i].top]]

(* the session the icon's onmousedown leaves: a, b are offsetX, offsetY; c, d
   keep where the element was at the press *)
iconSession(S, i, grabX, grabY) ==
  [kind |-> "icon", id |-> i, a |-> grabX, b |-> grabY,
   c |-> S.desktop.el[i].left, d |-> S.desktop.el[i].top]

(* document.onmousemove of an icon drag *)
iconMove(S, session, px, py) ==
  LET i == session.id
      newX == IF ViewportWidth - IconWidth < px - session.a
              THEN ViewportWidth - IconWidth
              ELSE IF px - session.a < 0 THEN 0 ELSE px - session.a
      newY == IF ViewportHeight - IconHeight < py - session.b
              THEN ViewportHeight - IconHeight
              ELSE IF py - session.b < 0 THEN 0 ELSE py - session.b
      iconCenterX == newX + IconWidth \div 2
      iconCenterY == newY + IconHeight \div 2
  IN [S EXCEPT
        !.desktop.el[i] = [left |-> newX, top |-> newY],
        !.desktop.isOverTrash =
           /\ iconCenterX >= TrashLeft
           /\ iconCenterX <= TrashRight
           /\ iconCenterY >= TrashTop
           /\ iconCenterY <= TrashBottom]

(* document.onmouseup of an icon drag *)
iconUp(S, session, confirmation) ==
  LET i == session.id
      S1 == [S EXCEPT !.markers.grabbing = FALSE,
                      !.markers.isDragging = @ \ {i}]
      S2 == IF S1.desktop.isOverTrash
            THEN promptDeleteFolder(S1, i, confirmation)
            ELSE saveDynamicDesktopItems(
                   [S1 EXCEPT !.desktop.current[i] = S1.desktop.el[i]])
  IN [S2 EXCEPT !.desktop.draggedIconInfo = NoInfo,
                !.desktop.isOverTrash = FALSE]

(* the mousedown on a window element: the capture listener of createWindow,
   then the title bar's onmousedown *)
dragDown(S, id) ==
  LET S1 == focusWindow(S, id)
      S2 == [S1 EXCEPT !.markers.grabbing = TRUE,
                       !.markers.isDragging = @ \cup {id},
                       !.desktop.draggedIconInfo = NoInfo]
  IN IF id \in DOMAIN S2.windows /\ id # S2.activeWindowId
     THEN focusWindow(S2, id)
     ELSE S2

(* mutant: the press on a maximized window installs a session as well *)
dragSession_OnMaximizedToo(S, id, grabX, grabY) ==
  [kind |-> "drag", id |-> id, a |-> grabX, b |-> grabY, c |-> 0, d |-> 0]

(* the session the title bar's onmousedown leaves: none on a maximized window *)
dragSession(S, id, grabX, grabY) ==
  IF id \in DOMAIN S.windows /\ S.windows[id].isMaximized
  THEN [kind |-> "none", id |-> null, a |-> 0, b |-> 0, c |-> 0, d |-> 0]
  ELSE [kind |-> "drag", id |-> id, a |-> grabX, b |-> grabY, c |-> 0, d |-> 0]

(* mutant: the clamp to the container is left out *)
dragMove_NoClamp(S, session, px, py) ==
  LET id == session.id IN
  IF id \notin DOMAIN S.windows
  THEN IF SnapZone(px, py) # "none" THEN showSnapIndicator(S, SnapZone(px, py)) ELSE S
  ELSE LET S1 == [S EXCEPT !.windows[id].style.left = px - session.a,
                           !.windows[id].style.top = py - session.b]
       IN IF SnapZone(px, py) # "none"
          THEN showSnapIndicator(S1, SnapZone(px, py))
          ELSE [S1 EXCEPT !.windows[id].isSnapping = "none"]

(* mutant: a move into a snap zone applies the snap rectangle at once *)
dragMove_SnapsOnMove(S, session, px, py) ==
  LET id == session.id IN
  IF id \notin DOMAIN S.windows
  THEN IF SnapZone(px, py) # "none" THEN showSnapIndicator(S, SnapZone(px, py)) ELSE S
  ELSE LET el == S.windows[id].style
           dockHeight == IF S.isDockVisible THEN DockTotalHeight ELSE 0
           newX == Max(0, Min(px - session.a, ViewportWidth - el.width))
           newY == Max(MenuBarHeight,
                       Min(py - session.b, ViewportHeight - el.height - dockHeight))
           S1 == [S EXCEPT !.windows[id].style.left = newX,
                           !.windows[id].style.top = newY]
       IN IF SnapZone(px, py) # "none"
          THEN LET S2 == showSnapIndicator(S1, SnapZone(px, py))
                   S3 == applySnap(S2, id)
               IN [S3 EXCEPT !.windows[id].isSnapping = S2.windows[id].isSnapping]
          ELSE [S1 EXCEPT !.windows[id].isSnapping = "none"]

(* mutant: the move is applied to the active window, not the grabbed one *)
dragMove_MovesActive(S, session, px, py) ==
  LET id == S.activeWindowId IN
  IF id \notin DOMAIN S.windows
  THEN S
  ELSE LET el == S.windows[id].style
           dockHeight == IF S.isDockVisible THEN DockTotalHeight ELSE 0
           newX == Max(0, Min(px - session.a, ViewportWidth - el.width))
           newY == Max(MenuBarHeight,
                       Min(py - session.b, ViewportHeight - el.height - dockHeight))
           S1 == [S EXCEPT !.windows[id].style.left = newX,
                           !.windows[id].style.top = newY]
       IN IF SnapZone(px, py) # "none"
          THEN showSnapIndicator(S1, SnapZone(px, py))
          ELSE [S1 EXCEPT !.windows[id].isSnapping = "none"]

(* document.onmousemove of a window drag; session.a, session.b are offsetX, offsetY *)
dragMove(S, session, px, py) ==
  LET id == session.id IN
  IF id \notin DOMAIN S.windows
  THEN IF SnapZone(px, py) # "none" THEN showSnapIndicator(S, SnapZone(px, py)) ELSE S
  ELSE LET el == S.windows[id].style
           dockHeight == IF S.isDockVisible THEN DockTotalHeight ELSE 0
           minX == 0
           minY == MenuBarHeight
           maxX == ViewportWidth - el.width
           maxY == ViewportHeight - el.height - dockHeight
           newX == Max(minX, Min(px - session.a, maxX))
           newY == Max(minY, Min(py - session.b, maxY))
           S1 == [S EXCEPT !.windows[id].style.left = newX,
                           !.windows[id].style.top = newY]
       IN IF SnapZone(px, py) # "none"
          THEN showSnapIndicator(S1, SnapZone(px, py))
          ELSE [S1 EXCEPT !.windows[id].isSnapping = "none"]

(* document.onmouseup of a window drag *)
dragUp(S, session) ==
  LET S1 == [S EXCEPT !.markers.grabbing = FALSE,
                      !.markers.isDragging = @ \ {session.id}]
  IN IF /\ session.id \in DOMAIN S1.windows
        /\ S1.windows[session.id].isSnapping # "none"
     THEN applySnap(S1, session.id)
     ELSE S1

(* the mousedown on the resize handle: the capture listener of createWindow;
   the handle's onmousedown changes no state *)
resizeDown(S, id) == focusWindow(S, id)

(* the session the handle's onmousedown leaves: a, b are startX, startY and
   c, d are startWidth, startHeight *)
resizeSession(S, id, startX, startY) ==
  IF /\ id \in DOMAIN S.windows
     /\ (S.windows[id].isMaximized \/ S.windows[id].isSnapping # "none")
  THEN [kind |-> "none", id |-> null, a |-> 0, b |-> 0, c |-> 0, d |-> 0]
  ELSE [kind |-> "resize", id |-> id, a |-> startX, b |-> startY,
        c |-> IF id \in DOMAIN S.windows THEN S.windows[id].style.width ELSE 0,
        d |-> IF id \in DOMAIN S.windows THEN S.windows[id].style.height ELSE 0]

(* mutant: the new size is written without the minimums *)
resizeMove_NoMinimum(S, session, px, py) ==
  IF session.id \notin DOMAIN S.windows
  THEN S
  ELSE [S EXCEPT
          !.windows[session.id].style.width = session.c + (px - session.a),
          !.windows[session.id].style.height = session.d + (py - session.b)]

(* document.onmousemove of a resize *)
resizeMove(S, session, px, py) ==
  IF session.id \notin DOMAIN S.windows
  THEN S
  ELSE LET newWidth == session.c + (px - session.a)
           newHeight == session.d + (py - session.b)
       IN [S EXCEPT
             !.windows[session.id].style.width = Max(MinResizeWidth, newWidth),
             !.windows[session.id].style.height = Max(MinResizeHeight, newHeight)]

RECURSIVE refreshWindows(_, _)

(* the forEach of toggleDockVisibility over the windows in ids *)
refreshWindows(S, ids) ==
  IF ids = {}
  THEN S
  ELSE LET id == CHOOSE w \in ids : TRUE
           win == S.windows[id]
           S1 == IF win.isOpen /\ win.isMaximized
                 THEN toggleMaximizeWindow(toggleMaximizeWindow(S, id), id)
                 ELSE S
           S2 == IF win.isOpen /\ win.isSnapping # "none"
                 THEN applySnap(S1, id)
                 ELSE S1
       IN refreshWindows(S2, ids \ {id})

toggleDockVisibility(S) ==
  refreshWindows([S EXCEPT !.isDockVisible = ~S.isDockVisible], DOMAIN S.windows)

(* ---- history of the last operation (for stating the claims) ---- *)
(* lastOp names the operation that produced the current state, its target
   (for openApp: the open window of the app, if any) as it was before the
   operation, whether a drag or resize session was installed before it
   (held), and whether the operation before it was the same call; chain
   follows toggleMaximizeWindow, minimizeWindow, restoreWindow called one
   after the other on one window and keeps the window as it was before the
   first of them; x, y are the clientX, clientY of a pointer-move of a drag or a resize *)
TargetBefore(target) ==
  LET known == target \in DOMAIN windows
      win == IF known THEN windows[target] ELSE NoWindow
  IN [known |-> known,
      wasActive |-> known /\ activeWindowId = target,
      wasOpen |-> win.isOpen,
      wasMinimized |-> win.isMinimized,
      wasMaximized |-> win.isMaximized,
      wasSnapping |-> win.isSnapping]

NoChain ==
  [steps |-> 0, wasOpen |-> FALSE, wasMinimized |-> FALSE,
   wasMaximized |-> FALSE, style |-> NoPosition]

Op(op, id, app, target) ==
  LET again == lastOp.op = op /\ lastOp.id = id /\ lastOp.app = app
      isToggle == op = "toggleMaximizeWindow" /\ target \in DOMAIN windows
      keepsStyle == /\ op \in {"toggleMaximizeWindow", "minimizeWindow", "dragUp"}
                    /\ target \in DOMAIN windows
  IN [op |-> op, id |-> id, app |-> app,
      held |-> pointer.kind # "none",
      x |-> -1, y |-> -1,
      before |-> TargetBefore(target),
      style |-> IF keepsStyle THEN windows[target].style ELSE NoPosition,
      again |-> again,
      first |-> IF again /\ isToggle
                THEN [wasMaximized |-> lastOp.before.wasMaximized,
                      style |-> lastOp.style]
                ELSE [wasMaximized |-> FALSE, style |-> NoPosition],
      chain |-> IF /\ op = "minimizeWindow"
                   /\ lastOp.op = "toggleMaximizeWindow"
                   /\ lastOp.id = id
                   /\ lastOp.before.known
                THEN [steps |-> 2,
                      wasOpen |-> lastOp.before.wasOpen,
                      wasMinimized |-> lastOp.before.wasMinimized,
                      wasMaximized |-> lastOp.before.wasMaximized,
                      style |-> lastOp.style]
                ELSE IF /\ op = "restoreWindow"
                        /\ lastOp.op = "minimizeWindow"
                        /\ lastOp.id = id
                        /\ lastOp.chain.steps = 2
                THEN [lastOp.chain EXCEPT !.steps = 3]
                ELSE NoChain]

NoOp ==
  [op |-> "init", id |-> null, app |-> "null", held |-> FALSE,
   x |-> -1, y |-> -1,
   before |-> [known |-> FALSE, wasActive |-> FALSE, wasOpen |-> FALSE,
               wasMinimized |-> FALSE, wasMaximized |-> FALSE,
               wasSnapping |-> "none"],
   style |-> NoPosition, again |-> FALSE,
   first |-> [wasMaximized |-> FALSE, style |-> NoPosition],
   chain |-> NoChain]

(* ---- the state machine ---- *)
InBounds(S) ==
  /\ S.nextZIndex <= zLimit
  /\ Len(S.timers) <= MaxTimers
  /\ S.now <= MaxClock

BecomesWith(S, session) ==
  /\ InBounds(S)
  /\ windows' = S.windows
  /\ activeWindowId' = S.activeWindowId
  /\ nextZIndex' = S.nextZIndex
  /\ dock' = S.dock
  /\ timers' = S.timers
  /\ now' = S.now
  /\ isDockVisible' = S.isDockVisible
  /\ markers' = S.markers
  /\ desktop' = S.desktop
  /\ pointer' = session
  /\ sessions' = IF session.kind # "none" /\ session # pointer
                 THEN sessions + 1
                 ELSE sessions
  /\ sessions' <= MaxSessions
  /\ zLimit' = zLimit

Becomes(S) == BecomesWith(S, pointer)

EmptyWindows == [w \in {} |-> NoWindow]

(* no element is being dragged: the classes as the page is loaded *)
NoMarkers == [grabbing |-> FALSE, isDragging |-> {}]

(* no drag or resize handlers are installed on document *)
NoSession == [kind |-> "none", id |-> null, a |-> 0, b |-> 0, c |-> 0, d |-> 0]

Init ==
  /\ windows = EmptyWindows
  /\ activeWindowId = null
  /\ nextZIndex = InitialZIndex
  /\ dock = [app \in Apps |-> [shown |-> isEssentialDock(app), active |-> FALSE]]
  /\ timers = <<>>
  /\ now = 0
  /\ lastOp = NoOp
  /\ isDockVisible = TRUE
  /\ pointer = NoSession
  /\ sessions = 0
  /\ markers = NoMarkers
  /\ desktop = InitialDesktop
  /\ zLimit = MaxZIndex

ExistingOf(app) ==
  IF OpenWindowsOf(State, app) # {}
  THEN CHOOSE id \in OpenWindowsOf(State, app) : TRUE
  ELSE null

(* a dock, menu, spotlight or desktop-icon launch *)
OpenApp(app, rx, ry, dt) ==
  /\ Becomes(openApp(State, app, [rx |-> rx, ry |-> ry, dt |-> dt]))
  /\ lastOp' = Op("openApp", null, app, ExistingOf(app))

(* a mousedown on a window element, or its entry of the window menu; callers
   never focus a minimized (hidden) window *)
FocusWindow(id) ==
  /\ id \in DOMAIN windows => ~windows[id].isMinimized
  /\ Becomes(focusWindow(State, id))
  /\ lastOp' = Op("focusWindow", id, id[1], id)

CloseWindow(id) ==
  /\ Becomes(closeWindow(State, id, FALSE))
  /\ lastOp' = Op("closeWindow", id, id[1], id)

(* closeWindow on a window whose audioPlayer.pause() raises *)
CloseWindowThrows(id) ==
  /\ id \in DOMAIN windows
  /\ hasAudioPlayer(windows[id].baseAppId)
  /\ Becomes(closeWindow(State, id, TRUE))
  /\ lastOp' = Op("closeWindowThrows", id, id[1], id)

(* the grace period of the oldest pending close has elapsed *)
CloseTimer ==
  /\ timers # <<>>
  /\ Becomes(closeTimer(State))
  /\ lastOp' = Op("closeTimer", Head(timers).id, Head(timers).id[1], Head(timers).id)

MinimizeWindow(id) ==
  /\ Becomes(minimizeWindow(State, id))
  /\ lastOp' = Op("minimizeWindow", id, id[1], id)

RestoreWindow(id, rx, ry, dt) ==
  /\ Becomes(restoreWindow(State, id, [rx |-> rx, ry |-> ry, dt |-> dt]))
  /\ lastOp' = Op("restoreWindow", id, id[1], id)

ToggleMaximizeWindow(id) ==
  /\ Becomes(toggleMaximizeWindow(State, id))
  /\ lastOp' = Op("toggleMaximizeWindow", id, id[1], id)

(* a mousedown on the title bar of a window that is shown *)
DragDown(id, grabX, grabY) ==
  /\ pointer.kind = "none"
  /\ id \in DOMAIN windows
  /\ ~windows[id].isMinimized
  /\ LET S1 == dragDown(State, id)
     IN BecomesWith(S1, dragSession(S1, id, grabX, grabY))
  /\ lastOp' = Op("dragDown", id, id[1], id)

DragMove(px, py) ==
  /\ pointer.kind = "drag"
  /\ BecomesWith(dragMove(State, pointer, px, py), pointer)
  /\ lastOp' = [Op("dragMove", pointer.id, pointer.id[1], pointer.id)
                  EXCEPT !.x = px, !.y = py]

DragUp ==
  /\ pointer.kind = "drag"
  /\ BecomesWith(dragUp(State, pointer), NoSession)
  /\ lastOp' = Op("dragUp", pointer.id, pointer.id[1], pointer.id)

(* a mousedown on the resize handle, at the bottom right corner of a window
   that is shown *)
ResizeDown(id) ==
  /\ pointer.kind = "none"
  /\ id \in DOMAIN windows
  /\ ~windows[id].isMinimized
  /\ LET S1 == resizeDown(State, id)
         el == S1.windows[id].style
     IN BecomesWith(S1, resizeSession(S1, id, el.left + el.width, el.top + el.height))
  /\ lastOp' = Op("resizeDown", id, id[1], id)

ResizeMove(px, py) ==
  /\ pointer.kind = "resize"
  /\ BecomesWith(resizeMove(State, pointer, px, py), pointer)
  /\ lastOp' = [Op("resizeMove", pointer.id, pointer.id[1], pointer.id)
                  EXCEPT !.x = px, !.y = py]

ResizeUp ==
  /\ pointer.kind = "resize"
  /\ BecomesWith(State, NoSession)
  /\ lastOp' = Op("resizeUp", pointer.id, pointer.id[1], pointer.id)

(* the menu action toggle-dock *)
ToggleDockVisibility ==
  /\ pointer.kind = "none"
  /\ Becomes(toggleDockVisibility(State))
  /\ lastOp' = Op("toggleDockVisibility", null, "null", null)

(* the ids a handler can be called with: the registered windows of the
   given apps and, when stale, also ids of these apps that are not registered *)
Targets(apps, stale) ==
  {id \in IdsOf(apps) : stale \/ id \in DOMAIN windows}

Operations(apps, stale) ==
  \/ \E app \in apps, rx \in RandomX, ry \in RandomY, dt \in ClockSteps :
       OpenApp(app, rx, ry, dt)
  \/ \E id \in Targets(apps, stale) : FocusWindow(id)
  \/ \E id \in Targets(apps, stale) : CloseWindow(id)
  \/ CloseTimer
  \/ \E id \in Targets(apps, stale) : MinimizeWindow(id)
  \/ \E id \in Targets(apps, stale), rx \in RandomX, ry \in RandomY, dt \in ClockSteps :
       RestoreWindow(id, rx, ry, dt)
  \/ \E id \in Targets(apps, stale) : ToggleMaximizeWindow(id)

Next == Operations(SpecApps, FALSE)

Spec == Init /\ [][Next]_vars

(* handlers called with ids that are not, or no longer, registered *)
NextStale == Operations(StaleApps, TRUE)

SpecStale == Init /\ [][NextStale]_vars

(* the music player, whose teardown may raise *)
NextThrow ==
  \/ Operations(ThrowApps, FALSE)
  \/ \E id \in Targets(ThrowApps, FALSE) : CloseWindowThrows(id)

SpecThrow == Init /\ [][NextThrow]_vars

(* windows dragged, snapped and resized with the mouse: the windows are
   opened, zoomed, dragged and resized and the dock is toggled; while the
   button is held only the mouse acts *)
NextPointer ==
  \/ /\ pointer.kind = "none"
     /\ \E app \in PointerApps, rx \in RandomX, ry \in RandomY, dt \in ClockSteps :
          OpenApp(app, rx, ry, dt)
  \/ /\ pointer.kind = "none"
     /\ \E id \in Targets(PointerApps, FALSE) : ToggleMaximizeWindow(id)
  \/ \E id \in Targets(PointerApps, FALSE), grabX \in GrabXs, grabY \in GrabYs :
       DragDown(id, grabX, grabY)
  \/ \E px \in PointerXs, py \in PointerYs : DragMove(px, py)
  \/ DragUp
  \/ \E id \in Targets(PointerApps, FALSE) : ResizeDown(id)
  \/ \E px \in PointerXs, py \in PointerYs : ResizeMove(px, py)
  \/ ResizeUp
  \/ ToggleDockVisibility

(* the clock has its last reading but one: one window is created *)
InitPointer ==
  /\ windows = EmptyWindows
  /\ activeWindowId = null
  /\ nextZIndex = InitialZIndex
  /\ dock = [app \in Apps |-> [shown |-> isEssentialDock(app), active |-> FALSE]]
  /\ timers = <<>>
  /\ now = MaxClock - 1
  /\ lastOp = NoOp
  /\ isDockVisible = TRUE
  /\ pointer = NoSession
  /\ sessions = 0
  /\ markers = NoMarkers
  /\ desktop = InitialDesktop
  /\ zLimit = MaxZIndex

SpecPointer == InitPointer /\ [][NextPointer]_vars

(* two windows opened, clicked, minimized, restored and closed in turn: the
   registry operations and the click on a title bar (press and release) *)
NextScenario ==
  \/ /\ pointer.kind = "none"
     /\ \E app \in ScenarioApps, rx \in RandomX, ry \in RandomY, dt \in ClockSteps :
          OpenApp(app, rx, ry, dt)
  \/ pointer.kind = "none" /\ \E id \in Targets(ScenarioApps, FALSE) : MinimizeWindow(id)
  \/ /\ pointer.kind = "none"
     /\ \E id \in Targets(ScenarioApps, FALSE),
           rx \in RandomX, ry \in RandomY, dt \in ClockSteps :
          RestoreWindow(id, rx, ry, dt)
  \/ pointer.kind = "none" /\ \E id \in Targets(ScenarioApps, FALSE) : CloseWindow(id)
  \/ pointer.kind = "none" /\ CloseTimer
  \/ \E id \in Targets(ScenarioApps, FALSE), grabX \in GrabXs, grabY \in GrabYs :
       DragDown(id, grabX, grabY)
  \/ DragUp

InitScenario ==
  /\ windows = EmptyWindows
  /\ activeWindowId = null
  /\ nextZIndex = InitialZIndex
  /\ dock = [app \in Apps |-> [shown |-> isEssentialDock(app), active |-> FALSE]]
  /\ timers = <<>>
  /\ now = MaxClock - 2
  /\ lastOp = NoOp
  /\ isDockVisible = TRUE
  /\ pointer = NoSession
  /\ sessions = 0
  /\ markers = NoMarkers
  /\ desktop = InitialDesktop
  /\ zLimit = MaxScenarioZIndex

SpecScenario == InitScenario /\ [][NextScenario]_vars

(* launches that can fall into the millisecond of the previous creation:
   Date.now() then reads what it read for the window created last *)
OpenAppSameMillisecond(app, rx, ry) ==
  /\ now > 0
  /\ OpenApp(app, rx, ry, 0)

NextClock ==
  \/ Operations(ClockApps, FALSE)
  \/ \E app \in ClockApps, rx \in RandomX, ry \in RandomY :
       OpenAppSameMillisecond(app, rx, ry)

SpecClock == Init /\ [][NextClock]_vars

(* a further mousedown on a title bar (another mouse button, or a release
   the page did not see) while handlers are installed on document: the
   handlers are overwritten unless the press is rejected *)
DragDownWhileHeld(id, grabX, grabY) ==
  /\ pointer.kind # "none"
  /\ id \in DOMAIN windows
  /\ ~windows[id].isMinimized
  /\ LET S1 == dragDown(State, id)
         session == dragSession(S1, id, grabX, grabY)
     IN BecomesWith(S1, IF session.kind = "none" THEN pointer ELSE session)
  /\ lastOp' = Op("dragDown", id, id[1], id)

(* a dock item that has the keyboard focus is activated with Enter or Space
   while the mouse button is held on a title bar *)
KeyLaunch(app, rx, ry, dt) ==
  /\ pointer.kind = "drag"
  /\ OpenApp(app, rx, ry, dt)

(* windows dragged with the mouse while the keyboard launches apps and
   further presses arrive *)
NextKeys ==
  \/ /\ pointer.kind = "none"
     /\ \E id \in Targets(PointerApps, FALSE) : ToggleMaximizeWindow(id)
  \/ \E id \in Targets(PointerApps, FALSE), grabX \in GrabXs, grabY \in GrabYs :
       DragDownWhileHeld(id, grabX, grabY)
  \/ /\ pointer.kind = "none"
     /\ \E app \in PointerApps, rx \in RandomX, ry \in RandomY, dt \in ClockSteps :
          OpenApp(app, rx, ry, dt)
  \/ \E app \in PointerApps, rx \in RandomX, ry \in RandomY, dt \in ClockSteps :
       KeyLaunch(app, rx, ry, dt)
  \/ \E id \in Targets(PointerApps, FALSE), grabX \in GrabXs, grabY \in GrabYs :
       DragDown(id, grabX, grabY)
  \/ \E px \in EdgeXs, py \in EdgeYs : DragMove(px, py)
  \/ DragUp

SpecKeys == InitScenario /\ [][NextKeys]_vars

(* a mousedown on a desktop icon *)
IconDown(i, grabX, grabY) ==
  /\ pointer.kind = "none"
  /\ i \in desktop.items
  /\ BecomesWith(iconDown(State, i), iconSession(State, i, grabX, grabY))
  /\ lastOp' = Op("iconDown", i, "null", i)

IconMove(px, py) ==
  /\ pointer.kind = "icon"
  /\ BecomesWith(iconMove(State, pointer, px, py), pointer)
  /\ lastOp' = [Op("iconMove", pointer.id, "null", pointer.id)
                  EXCEPT !.x = px, !.y = py]

(* the mouseup of an icon drag; the user answers confirm() if it is shown *)
IconUp(confirmation) ==
  /\ pointer.kind = "icon"
  /\ BecomesWith(iconUp(State, pointer, confirmation), NoSession)
  /\ lastOp' = Op(IF confirmation THEN "iconUpConfirmed" ELSE "iconUpDeclined",
                  pointer.id, "null", pointer.id)

(* the maximize control of the active window activated from the keyboard *)
KeyMaximize(id) ==
  /\ id = activeWindowId
  /\ ToggleMaximizeWindow(id)

(* the folder icon dragged with the mouse, next to one window whose title bar
   can be pressed as well *)
NextIcons ==
  \/ /\ pointer.kind = "none"
     /\ \E app \in IconApps, rx \in RandomX, ry \in RandomY, dt \in ClockSteps :
          OpenApp(app, rx, ry, dt)
  \/ \E id \in Targets(IconApps, FALSE) : KeyMaximize(id)
  \/ \E i \in DesktopItems, grabX \in IconGrabXs, grabY \in IconGrabYs :
       IconDown(i, grabX, grabY)
  \/ \E px \in PointerXs, py \in PointerYs : IconMove(px, py)
  \/ \E confirmation \in BOOLEAN : IconUp(confirmation)
  \/ \E id \in Targets(IconApps, FALSE), grabX \in GrabXs, grabY \in GrabYs :
       DragDownWhileHeld(id, grabX, grabY)
  \/ DragUp

SpecIcons == InitPointer /\ [][NextIcons]_vars

(* a timer set by window.setTimeout does fire *)
SpecThrowFair == SpecThrow /\ WF_vars(CloseTimer)

(* ---- properties ---- *)
(* the windows that are Open, Maximized or Snapped: registered, not closed,
   not minimized *)
OpenWindows ==
  {id \in DOMAIN windows : windows[id].isOpen /\ ~windows[id].isMinimized}

RecordsOf(app) == {id \in DOMAIN windows : windows[id].baseAppId = app}

(* the records of an app that are not Closing *)
OpenRecordsOf(app) == {id \in RecordsOf(app) : windows[id].isOpen}

SingleInstanceApps == {app \in Apps : ~allowMultipleInstances(app)}

RegistryOps ==
  {"focusWindow", "minimizeWindow", "restoreWindow", "toggleMaximizeWindow",
   "closeWindow"}

C3_FocusedIsOpen ==
  activeWindowId # null =>
    /\ activeWindowId \in DOMAIN windows
    /\ windows[activeWindowId].isOpen
    /\ ~windows[activeWindowId].isMinimized

(* C3 amended: the focused window is never Minimized and never a removed
   (Closed) record; it can be a Closing record until the grace timer fires *)
C3_FocusedIsRegisteredAndShown ==
  activeWindowId # null =>
    /\ activeWindowId \in DOMAIN windows
    /\ ~windows[activeWindowId].isMinimized

(* the focused window has been closed and awaits its removal *)
C3_Witness ==
  /\ activeWindowId \in DOMAIN windows
  /\ ~windows[activeWindowId].isOpen
  /\ lastOp.op = "closeWindow"
  /\ lastOp.before.wasActive

(* C4: minimizeWindow(id) on the focused window leaves no window focused, and
   changes no other record (so no other zIndex) and not nextZIndex *)
C4_MinimizeClearsFocus ==
  [][(lastOp'.op = "minimizeWindow" /\ activeWindowId = lastOp'.id
        /\ lastOp'.before.known)
     => /\ activeWindowId' = null
        /\ nextZIndex' = nextZIndex
        /\ DOMAIN windows' = DOMAIN windows
        /\ windows'[lastOp'.id].isMinimized
        /\ \A o \in DOMAIN windows \ {lastOp'.id} : windows'[o] = windows[o]]_vars

(* the focused one of two open windows has just been minimized *)
C4_Witness ==
  /\ lastOp.op = "minimizeWindow"
  /\ lastOp.before.wasActive
  /\ Cardinality(OpenWindows) = 1
  /\ Cardinality(DOMAIN windows) = 2

(* C5: closeWindow never changes the focus; when the grace timer removes the
   record that is (still) the focused one, no window is focused afterwards;
   no removal focuses another window *)
C5_CloseClearsFocus ==
  [][/\ lastOp'.op = "closeWindow" =>
          /\ activeWindowId' = activeWindowId
          /\ nextZIndex' = nextZIndex
     /\ lastOp'.op = "closeTimer" =>
          /\ lastOp'.id \notin DOMAIN windows'
          /\ activeWindowId = lastOp'.id => activeWindowId' = null
          /\ activeWindowId # lastOp'.id => activeWindowId' = activeWindowId
          /\ nextZIndex' = nextZIndex
          /\ \A o \in DOMAIN windows' : windows'[o] = windows[o]]_vars

(* the focused window was closed and removed while another window remains *)
C5_Witness ==
  /\ lastOp.op = "closeTimer"
  /\ lastOp.before.wasActive
  /\ ~lastOp.before.wasOpen
  /\ activeWindowId = null
  /\ OpenWindows # {}

(* C6: toggleMaximizeWindow(id) twice in a row on a registered window that
   is not Maximized restores the top, left, width and height it had before
   the first call and leaves it not Maximized *)
C6_MaximizeRoundTrip ==
  (/\ lastOp.op = "toggleMaximizeWindow"
   /\ lastOp.again
   /\ lastOp.before.known
   /\ ~lastOp.first.wasMaximized)
  => /\ lastOp.id \in DOMAIN windows
     /\ windows[lastOp.id].style = lastOp.first.style
     /\ ~windows[lastOp.id].isMaximized

(* a window was maximized and un-maximized by two calls in a row *)
C6_Witness ==
  /\ lastOp.op = "toggleMaximizeWindow"
  /\ lastOp.again
  /\ lastOp.before.known
  /\ lastOp.before.wasMaximized
  /\ ~lastOp.first.wasMaximized
  /\ lastOp.first.style # NoPosition
  /\ lastOp.first.style.top # lastOp.first.style.left

(* C7 as claimed: after openApp twice in a row for a single-instance app the
   registry holds exactly one record of the app, focused and not minimized *)
C7_OneRecordAfterReopen ==
  (/\ lastOp.op = "openApp"
   /\ lastOp.again
   /\ lastOp.app \in SingleInstanceApps)
  => /\ Cardinality(RecordsOf(lastOp.app)) = 1
     /\ activeWindowId \in RecordsOf(lastOp.app)
     /\ ~windows[activeWindowId].isMinimized

(* C7 amended: an openApp of a single-instance app that finds an open
   instance (as the second of two calls in a row always does) leaves exactly
   one open record of the app, which is focused and not minimized *)
C7_OneOpenRecordAfterReopen ==
  (/\ lastOp.op = "openApp"
   /\ lastOp.app \in SingleInstanceApps
   /\ lastOp.again \/ lastOp.before.known)
  => /\ lastOp.before.known
     /\ Cardinality(OpenRecordsOf(lastOp.app)) = 1
     /\ activeWindowId \in OpenRecordsOf(lastOp.app)
     /\ ~windows[activeWindowId].isMinimized

(* openApp was called twice in a row for a single-instance app *)
C7_Witness ==
  /\ lastOp.op = "openApp"
  /\ lastOp.again
  /\ lastOp.app \in SingleInstanceApps
  /\ activeWindowId \in OpenRecordsOf(lastOp.app)

(* C8 as claimed: a single-instance app has at most one record in the
   registry, a Closing record included *)
C8_AtMostOneRecord ==
  \A app \in SingleInstanceApps : Cardinality(RecordsOf(app)) <= 1

(* C8 amended: a single-instance app has at most one record that is not
   Closing (isOpen); a Closing record awaiting removal is not counted *)
C8_AtMostOneOpenRecord ==
  \A app \in SingleInstanceApps : Cardinality(OpenRecordsOf(app)) <= 1

(* a Closing record and a new open record of a single-instance app *)
C8_Witness ==
  \E app \in SingleInstanceApps :
    /\ Cardinality(RecordsOf(app)) = 2
    /\ Cardinality(OpenRecordsOf(app)) = 1

(* C9: a registry operation called with an id that is not in the registry
   changes neither the records, nor the focused-window id, nor nextZIndex *)
C9_UnknownIdIsNoOp ==
  [][(lastOp'.op \in RegistryOps /\ ~lastOp'.before.known)
     => UNCHANGED <<windows, activeWindowId, nextZIndex>>]_vars

(* C10: a record that closeWindow has marked closed always has its removal
   pending, also when the teardown of its appSpecificState raised *)
C10_ClosingIsRemoved ==
  \A id \in DOMAIN windows :
    ~windows[id].isOpen => \E i \in 1..Len(timers) : timers[i].id = id

(* C11: every closeWindow(id) on a registered window is eventually followed
   by the removal of the record of that id from the registry *)
C11_ClosedIsEventuallyRemoved ==
  \A id \in IdsOf(Apps) :
    [](( /\ id \in DOMAIN windows
         /\ ~windows[id].isOpen
         /\ lastOp.op \in {"closeWindow", "closeWindowThrows"}
         /\ lastOp.id = id)
       => <>(id \notin DOMAIN windows))

(* the last operation was the release of a drag that committed a snap *)
SnapCommitted ==
  /\ lastOp.op = "dragUp"
  /\ lastOp.before.wasSnapping # "none"
  /\ lastOp.id \in DOMAIN windows

(* C12: whenever a window is Maximized, Minimized or has just been Snapped by
   a drag release, a saved geometry (originalPosition) exists for it *)
C12_SavedGeometryExists ==
  /\ \A id \in DOMAIN windows :
       (windows[id].isMaximized \/ windows[id].isMinimized)
         => windows[id].originalPosition # NoPosition
  /\ SnapCommitted => windows[lastOp.id].originalPosition # NoPosition

(* C13: no record is minimized and maximized at the same time *)
C13_NotMinimizedAndMaximized ==
  \A id \in DOMAIN windows :
    ~(windows[id].isMinimized /\ windows[id].isMaximized)

(* C14: a press on the resize handle of a window that is maximized, or that
   the release of a drag has just snapped to an edge, starts no resize
   session and leaves the width and the height of the window as they were *)
C14_ResizeRejectedWhenMaximizedOrSnapped ==
  [][(/\ lastOp'.op = "resizeDown"
      /\ \/ lastOp'.before.wasMaximized
         \/ SnapCommitted /\ lastOp.id = lastOp'.id)
     => /\ pointer' = NoSession
        /\ windows'[lastOp'.id].style = windows[lastOp'.id].style]_vars

(* C15: when a drag or a resize ends, the window has a width of at least
   300 and a height of at least 200 *)
C15_MinimumSizeAtPointerUp ==
  (lastOp.op \in {"dragUp", "resizeUp"} /\ lastOp.id \in DOMAIN windows)
    => /\ windows[lastOp.id].style.width >= MinResizeWidth
       /\ windows[lastOp.id].style.height >= MinResizeHeight

(* the element el is within the clamp bounds of a window drag *)
WithinBounds(el, dockVisible) ==
  LET dockHeight == IF dockVisible THEN DockTotalHeight ELSE 0
  IN /\ 0 <= el.left
     /\ el.left <= ViewportWidth - el.width
     /\ MenuBarHeight <= el.top
     /\ el.top <= ViewportHeight - el.height - dockHeight

InContainer(id) == WithinBounds(windows[id].style, isDockVisible)

(* C16 as stated: after every pointer-move of a window drag and at every
   drag end state, 0 <= x <= containerWidth - width and
   menuBarHeight <= y <= containerHeight - height - dockHeight *)
C16_DragStaysInContainer ==
  (lastOp.op \in {"dragMove", "dragUp"} /\ lastOp.id \in DOMAIN windows)
    => InContainer(lastOp.id)

(* C16 amended: after a pointer-move of a window drag x is within
   [0, containerWidth - width] when the window is not wider than the
   container and 0 otherwise, and y is within
   [menuBarHeight, containerHeight - height - dockHeight] when the window is
   not taller than that space and menuBarHeight otherwise; the release moves
   the window only by committing a snap, and leaves a window that was within
   the bounds within them *)
C16_DragClampsIntoContainer ==
  [][/\ (lastOp'.op = "dragMove" /\ lastOp'.id \in DOMAIN windows')
          => LET el == windows'[lastOp'.id].style
                 maxX == ViewportWidth - el.width
                 maxY == ViewportHeight - el.height
                         - (IF isDockVisible' THEN DockTotalHeight ELSE 0)
             IN /\ IF maxX >= 0
                   THEN 0 <= el.left /\ el.left <= maxX
                   ELSE el.left = 0
                /\ IF maxY >= MenuBarHeight
                   THEN MenuBarHeight <= el.top /\ el.top <= maxY
                   ELSE el.top = MenuBarHeight
     /\ (lastOp'.op = "dragUp" /\ lastOp'.id \in DOMAIN windows')
          => /\ lastOp'.before.wasSnapping = "none"
                  => windows'[lastOp'.id].style = windows[lastOp'.id].style
             /\ WithinBounds(windows[lastOp'.id].style, isDockVisible)
                  => WithinBounds(windows'[lastOp'.id].style, isDockVisible')]_vars

(* a pointer-move has dragged a window that is taller than the space between
   the menu bar and the dock *)
C16_Witness ==
  /\ lastOp.op = "dragMove"
  /\ lastOp.id \in DOMAIN windows
  /\ ViewportHeight - windows[lastOp.id].style.height
       - (IF isDockVisible THEN DockTotalHeight ELSE 0) < MenuBarHeight
  /\ windows[lastOp.id].style.top = MenuBarHeight
  /\ windows[lastOp.id].style.left = ViewportWidth - windows[lastOp.id].style.width

(* the rectangle of a window snapped to the left edge: from below the menu
   bar to above the dock (when it is shown), the left half of the viewport *)
LeftRectangle ==
  [top |-> MenuBarHeight + 2,
   left |-> 2,
   width |-> ViewportWidth \div 2 - 4,
   height |-> ViewportHeight
              - (MenuBarHeight + (IF isDockVisible THEN DockTotalHeight ELSE 0) + 4)]

(* C17: the release of a drag to the left edge leaves the window in the Left
   rectangle, whatever its geometry was and also when it was in that
   rectangle already *)
C17_LeftSnapIsLeftRectangle ==
  (SnapCommitted /\ lastOp.before.wasSnapping = "left")
    => windows[lastOp.id].style = LeftRectangle

(* a window that had the size of the Left rectangle has been dragged to the
   left edge and released again *)
C17_Witness ==
  /\ SnapCommitted
  /\ lastOp.before.wasSnapping = "left"
  /\ lastOp.style.width = LeftRectangle.width
  /\ lastOp.style.height = LeftRectangle.height
  /\ lastOp.style # LeftRectangle
  /\ windows[lastOp.id].style = LeftRectangle

(* C18: createWindow never gives a new window the id of a window that is in
   the registry: an openApp that reaches the creation (the app allows several
   instances, or has no open one) adds an id that was not registered *)
C18_NewIdIsFresh ==
  [][(/\ lastOp'.op = "openApp"
      /\ \/ allowMultipleInstances(lastOp'.app)
         \/ OpenWindowsOf(State, lastOp'.app) = {})
     => <<lastOp'.app, now'>> \notin DOMAIN windows]_vars

(* the zIndex values of the scenario of C19 in the code: createWindow takes one
   value for the new record and the focusWindow it ends with takes the next *)
ScenarioZIndexes == <<InitialZIndex + 1, InitialZIndex + 3, InitialZIndex + 4>>

(* the three steps of the scenario, for the zIndex values z: from the empty
   registry openApp gives the window z[1] and the focus; with that window
   alone and focused, openApp of another app gives the new window z[2] and
   the focus and the first loses it; with these two windows, a press on the
   title bar of the first gives it z[3] and the focus *)
ScenarioSteps(z) ==
  /\ (/\ DOMAIN windows = {}
      /\ nextZIndex = InitialZIndex
      /\ lastOp'.op = "openApp")
       => \E a \in DOMAIN windows' :
            /\ DOMAIN windows' = {a}
            /\ windows'[a].zIndex = z[1]
            /\ windows'[a].focused
            /\ activeWindowId' = a
  /\ \A a \in DOMAIN windows :
       (/\ DOMAIN windows = {a}
        /\ windows[a].zIndex = z[1]
        /\ windows[a].isOpen /\ ~windows[a].isMinimized
        /\ activeWindowId = a
        /\ nextZIndex = z[1] + 1
        /\ lastOp'.op = "openApp"
        /\ lastOp'.app # windows[a].baseAppId)
         => \E b \in DOMAIN windows' \ {a} :
              /\ DOMAIN windows' = {a, b}
              /\ windows'[b].zIndex = z[2]
              /\ windows'[b].focused
              /\ activeWindowId' = b
              /\ ~windows'[a].focused
              /\ windows'[a].zIndex = z[1]
  /\ \A a \in DOMAIN windows, b \in DOMAIN windows :
       (/\ DOMAIN windows = {a, b}
        /\ windows[a].zIndex = z[1]
        /\ windows[b].zIndex = z[2]
        /\ windows[a].isOpen /\ ~windows[a].isMinimized
        /\ windows[b].isOpen /\ ~windows[b].isMinimized
        /\ activeWindowId = b
        /\ nextZIndex = z[2] + 1
        /\ lastOp'.op = "dragDown"
        /\ lastOp'.id = a)
         => /\ windows'[a].zIndex = z[3]
            /\ windows'[a].focused
            /\ activeWindowId' = a
            /\ ~windows'[b].focused
            /\ windows'[b].zIndex = z[2]

(* C19 as stated: open A gives A zIndex 100 and the focus, open B gives B
   zIndex 101 and the focus, a click on A's title bar gives A zIndex 102 and
   the focus *)
C19_ScenarioZIndexesAsClaimed ==
  [][ScenarioSteps(<<InitialZIndex, InitialZIndex + 1, InitialZIndex + 2>>)]_vars

(* C19 amended: open A gives A zIndex 101 and the focus, open B gives B
   zIndex 103 and the focus and A loses it, a click on A's title bar gives A
   zIndex 104 and the focus *)
C19_ScenarioZIndexes == [][ScenarioSteps(ScenarioZIndexes)]_vars

(* the title bar of the window opened first has been pressed after the
   second window was opened *)
C19_Witness ==
  /\ lastOp.op = "dragDown"
  /\ lastOp.id \in DOMAIN windows
  /\ Cardinality(DOMAIN windows) = 2
  /\ activeWindowId = lastOp.id
  /\ windows[lastOp.id].zIndex = ScenarioZIndexes[3]
  /\ \E b \in DOMAIN windows : windows[b].zIndex = ScenarioZIndexes[2]
  /\ nextZIndex = ScenarioZIndexes[3] + 1

(* C20: after open A, open B, a click on A, minimize A and close B, the end
   of B's grace period leaves A alone in the registry and no window focused;
   and while no window is focused and every window of the registry is
   minimized, as A is, no step gives a window the focus but one that
   restores a window or opens an app *)
C20_OnlyMinimizedWindowLeft ==
  [][/\ \A a \in DOMAIN windows, b \in DOMAIN windows :
          (/\ DOMAIN windows = {a, b}
           /\ windows[a].zIndex = ScenarioZIndexes[3]
           /\ windows[b].zIndex = ScenarioZIndexes[2]
           /\ nextZIndex = ScenarioZIndexes[3] + 1
           /\ windows[a].isOpen /\ windows[a].isMinimized
           /\ ~windows[b].isOpen
           /\ lastOp'.op = "closeTimer"
           /\ lastOp'.id = b)
            => /\ DOMAIN windows' = {a}
               /\ windows'[a].isMinimized
               /\ activeWindowId' = null
     /\ (/\ activeWindowId = null
         /\ \A id \in DOMAIN windows : windows[id].isMinimized
         /\ lastOp'.op \notin {"restoreWindow", "openApp"})
          => activeWindowId' = null]_vars

(* B's grace period has ended after A was clicked and minimized *)
C20_Witness ==
  /\ lastOp.op = "closeTimer"
  /\ lastOp.id \notin DOMAIN windows
  /\ activeWindowId = null
  /\ nextZIndex = ScenarioZIndexes[3] + 1
  /\ \E a \in DOMAIN windows :
       /\ DOMAIN windows = {a}
       /\ windows[a].isMinimized
       /\ windows[a].zIndex = ScenarioZIndexes[3]
       /\ lastOp.id[2] > a[2]

(* C21: after a pointer-up no drag or resize session is left and no record
   of the registry holds a snap candidate *)
C21_PointerUpEndsSessionAndCandidate ==
  lastOp.op \in {"dragUp", "resizeUp"}
    => /\ pointer = NoSession
       /\ \A id \in DOMAIN windows : windows[id].isSnapping = "none"

(* a pointer-move of a drag leaves the geometry of every window but the
   grabbed one as it was *)
MovesOnlyGrabbed ==
  lastOp'.op = "dragMove"
    => \A w \in DOMAIN windows \ {pointer.id} :
         w \in DOMAIN windows' /\ windows'[w].style = windows[w].style

(* C22 as stated: a press on a title bar while a session is active replaces
   the session by one on the pressed window, and the pointer-moves move only
   the grabbed window *)
C22_PressReplacesSession ==
  [][/\ (pointer.kind # "none" /\ lastOp'.op = "dragDown")
          => pointer'.kind = "drag" /\ pointer'.id = lastOp'.id
     /\ MovesOnlyGrabbed]_vars

(* C22 amended: a press on a title bar while a session is active replaces the
   session by one on the pressed window, unless that window is maximized:
   then the press is rejected and the session stays as it was; there is one
   session at most and the pointer-moves move only its window *)
C22_PressReplacesSessionUnlessRejected ==
  [][/\ (pointer.kind # "none" /\ lastOp'.op = "dragDown")
          => IF windows'[lastOp'.id].isMaximized
             THEN pointer' = pointer
             ELSE pointer'.kind = "drag" /\ pointer'.id = lastOp'.id
     /\ MovesOnlyGrabbed]_vars

(* the title bar of a maximized window was pressed while another window was
   held: the session of that other window is still the one installed *)
C22_Witness ==
  /\ lastOp.op = "dragDown"
  /\ lastOp.held
  /\ lastOp.id \in DOMAIN windows
  /\ windows[lastOp.id].isMaximized
  /\ pointer.kind = "drag"
  /\ pointer.id # lastOp.id

(* C23: in every state the dock is what renderDock derives from the
   registry and the focus *)
C23_DockIsDerivedFromRegistry == dock = renderDock(State).dock

(* C24: restoreWindow(id) right after minimizeWindow(id), on a window that
   was not Closing, leaves it open, neither minimized nor maximized, with
   the geometry it had before the minimize, focused and on top *)
C24_MinimizeRestoreRoundTrip ==
  [][(/\ lastOp.op = "minimizeWindow"
      /\ lastOp.before.known
      /\ lastOp.before.wasOpen
      /\ ~lastOp.before.wasMinimized
      /\ lastOp'.op = "restoreWindow"
      /\ lastOp'.id = lastOp.id)
     => /\ lastOp.id \in DOMAIN windows'
        /\ windows'[lastOp.id].style = lastOp.style
        /\ windows'[lastOp.id].isOpen
        /\ ~windows'[lastOp.id].isMinimized
        /\ ~windows'[lastOp.id].isMaximized
        /\ activeWindowId' = lastOp.id
        /\ windows'[lastOp.id].focused
        /\ \A w \in DOMAIN windows' \ {lastOp.id} :
             windows'[w].zIndex < windows'[lastOp.id].zIndex]_vars

(* a minimized window has been restored from its snapshot and is active *)
C24_Witness ==
  /\ lastOp.op = "restoreWindow"
  /\ lastOp.before.wasMinimized
  /\ lastOp.before.wasOpen
  /\ lastOp.id \in DOMAIN windows
  /\ ~windows[lastOp.id].isMinimized
  /\ activeWindowId = lastOp.id
  /\ windows[lastOp.id].style = windows[lastOp.id].originalPosition

(* C25: toggleMaximizeWindow (entering Maximized from Open), minimizeWindow
   and restoreWindow called one after the other on one window leave it
   open, neither maximized nor minimized, with the geometry it had before
   the maximize; and the snapshot taken by that minimize is the geometry
   before the maximize *)
C25_MaximizeMinimizeRestore ==
  /\ (/\ lastOp.chain.steps = 3
      /\ lastOp.chain.wasOpen
      /\ ~lastOp.chain.wasMinimized
      /\ ~lastOp.chain.wasMaximized)
     => /\ lastOp.id \in DOMAIN windows
        /\ windows[lastOp.id].style = lastOp.chain.style
        /\ windows[lastOp.id].isOpen
        /\ ~windows[lastOp.id].isMinimized
        /\ ~windows[lastOp.id].isMaximized
  /\ (/\ lastOp.chain.steps = 2
      /\ lastOp.chain.wasOpen
      /\ ~lastOp.chain.wasMinimized
      /\ ~lastOp.chain.wasMaximized)
     => /\ lastOp.id \in DOMAIN windows
        /\ windows[lastOp.id].originalPosition = lastOp.chain.style
        /\ windows[lastOp.id].isMinimized
        /\ ~windows[lastOp.id].isMaximized

(* an open window has been maximized, minimized and restored *)
C25_Witness ==
  /\ lastOp.op = "restoreWindow"
  /\ lastOp.chain.steps = 3
  /\ lastOp.chain.wasOpen
  /\ ~lastOp.chain.wasMinimized
  /\ ~lastOp.chain.wasMaximized
  /\ lastOp.chain.style # NoPosition
  /\ lastOp.chain.style.top # lastOp.chain.style.left
  /\ activeWindowId = lastOp.id

(* C26: restoreWindow(id) on a record that closeWindow has already marked
   (isOpen = false, still registered) registers no new window and changes
   neither activeWindowId nor any zIndex *)
C26_RestoreOfClosingIsNoOp ==
  [][(/\ lastOp'.op = "restoreWindow"
      /\ lastOp'.before.known
      /\ ~lastOp'.before.wasOpen)
     => /\ DOMAIN windows' = DOMAIN windows
        /\ activeWindowId' = activeWindowId
        /\ \A w \in DOMAIN windows : windows'[w].zIndex = windows[w].zIndex]_vars

(* C27: a record that closeWindow has marked (isOpen = false) keeps that
   mark for as long as it is registered, whatever is called on it, and it
   leaves the registry only through the removal callback of its close *)
C27_ClosingIsOneWay ==
  [][\A id \in DOMAIN windows :
       ~windows[id].isOpen
         => IF id \in DOMAIN windows'
            THEN ~windows'[id].isOpen
            ELSE lastOp'.op = "closeTimer" /\ lastOp'.id = id]_vars

(* restoreWindow has been called on a record marked closed, which is still
   registered and still marked *)
C27_Witness ==
  /\ lastOp.op = "restoreWindow"
  /\ lastOp.before.known
  /\ ~lastOp.before.wasOpen
  /\ lastOp.id \in DOMAIN windows
  /\ ~windows[lastOp.id].isOpen

SnapRectangle(position, dockVisible) ==
  LET dockTotalHeight == IF dockVisible THEN DockTotalHeight ELSE 0 IN
  CASE position = "left" ->
         [top |-> MenuBarHeight + 2, left |-> 2,
          width |-> ViewportWidth \div 2 - 4,
          height |-> ViewportHeight - (MenuBarHeight + dockTotalHeight + 4)]
    [] position = "right" ->
         [top |-> MenuBarHeight + 2, left |-> ViewportWidth \div 2 + 2,
          width |-> ViewportWidth \div 2 - 4,
          height |-> ViewportHeight - (MenuBarHeight + dockTotalHeight + 4)]
    [] OTHER ->
         [top |-> MenuBarHeight + 2, left |-> 2,
          width |-> ViewportWidth - 4,
          height |-> ViewportHeight \div 2
                     - (MenuBarHeight \div 2 + dockTotalHeight \div 2 + 2)]

(* C28: a pointer-move of a window drag changes no window's width or height,
   whatever the snap candidate is; the pointer-up puts the dragged window in
   the rectangle of its candidate if the candidate is not None at that
   moment, and leaves its geometry as it is if the candidate is None *)
C28_SnapOnlyOnPointerUp ==
  [][/\ (pointer.kind = "drag" /\ lastOp'.op = "dragMove")
          => \A w \in DOMAIN windows :
               /\ w \in DOMAIN windows'
               /\ windows'[w].style.width = windows[w].style.width
               /\ windows'[w].style.height = windows[w].style.height
     /\ (/\ pointer.kind = "drag"
         /\ lastOp'.op = "dragUp"
         /\ pointer.id \in DOMAIN windows)
          => /\ pointer.id \in DOMAIN windows'
             /\ windows'[pointer.id].style =
                  IF windows[pointer.id].isSnapping # "none"
                  THEN SnapRectangle(windows[pointer.id].isSnapping, isDockVisible)
                  ELSE windows[pointer.id].style]_vars

(* a drag was released with the candidate Left on the dragged window while
   another window is registered, and the release changed the width *)
C28_Witness ==
  /\ lastOp.op = "dragUp"
  /\ lastOp.before.wasSnapping = "left"
  /\ lastOp.id \in DOMAIN windows
  /\ lastOp.style.width # windows[lastOp.id].style.width
  /\ windows[lastOp.id].style = SnapRectangle("left", isDockVisible)
  /\ \E w \in DOMAIN windows : w # lastOp.id

(* C29: after every pointer-move of a window drag the dragged window's
   isSnapping is left if clientX < 20, else right if clientX > width - 20,
   else top if clientY < menu bar height + 20, else none *)
C29_CandidateFollowsPointer ==
  (lastOp.op = "dragMove" /\ lastOp.id \in DOMAIN windows)
    => windows[lastOp.id].isSnapping =
         IF lastOp.x < 20 THEN "left"
         ELSE IF lastOp.x > ViewportWidth - 20 THEN "right"
         ELSE IF lastOp.y < MenuBarHeight + 20 THEN "top"
         ELSE "none"

(* C30: a press on the title bar of a maximized window installs no session
   (the handlers on document stay as they were, none if none was installed),
   and no pointer-move changes the geometry of a maximized window *)
C30_NoDragOfMaximized ==
  [][/\ (/\ lastOp'.op = "dragDown"
         /\ lastOp'.before.known
         /\ lastOp'.before.wasMaximized)
          => /\ pointer' = pointer
             /\ windows'[lastOp'.id].style = windows[lastOp'.id].style
     /\ lastOp'.op = "dragMove"
          => \A w \in DOMAIN windows :
               windows[w].isMaximized
                 => /\ pointer.id # w
                    /\ w \in DOMAIN windows'
                    /\ windows'[w].style = windows[w].style]_vars

(* the title bar of a maximized window was pressed, which made it the active
   window, and a pointer-move has been delivered after that *)
C30_Witness ==
  /\ lastOp.op = "dragMove"
  /\ activeWindowId \in DOMAIN windows
  /\ windows[activeWindowId].isMaximized
  /\ pointer.kind = "drag"
  /\ pointer.id # activeWindowId

(* C31: the press on the resize handle takes the window's width and height
   as startWidth and startHeight; after every pointer-move of the resize the
   width is max(300, startWidth + dx), the height is max(200, startHeight +
   dy), with dx, dy the pointer's distance from the press, and top and left
   are as before the move *)
C31_ResizeClampsOnEveryMove ==
  [][/\ (lastOp'.op = "resizeDown" /\ pointer'.kind = "resize")
          => /\ pointer'.c = windows'[pointer'.id].style.width
             /\ pointer'.d = windows'[pointer'.id].style.height
     /\ (/\ pointer.kind = "resize"
         /\ lastOp'.op = "resizeMove"
         /\ pointer.id \in DOMAIN windows)
          => LET el == windows'[pointer.id].style
                 dx == lastOp'.x - pointer.a
                 dy == lastOp'.y - pointer.b
             IN /\ el.width = Max(300, pointer.c + dx)
                /\ el.height = Max(200, pointer.d + dy)
                /\ el.left = windows[pointer.id].style.left
                /\ el.top = windows[pointer.id].style.top]_vars

(* a pointer-move of a resize asked for less than the minimum width and the
   window has the minimum width *)
C31_Witness ==
  /\ lastOp.op = "resizeMove"
  /\ pointer.kind = "resize"
  /\ pointer.id \in DOMAIN windows
  /\ pointer.c + (lastOp.x - pointer.a) < 300
  /\ pointer.c > 300
  /\ windows[pointer.id].style.width = 300

(* C32: focusWindow(id) on the window that is the active one, has a zIndex
   above every other window's and is not minimized changes nothing: every
   record (its zIndex included), nextZIndex, activeWindowId and the dock are
   as before *)
C32_FocusOfFrontWindowIsNoOp ==
  [][(/\ lastOp'.op = "focusWindow"
      /\ lastOp'.id \in DOMAIN windows
      /\ activeWindowId = lastOp'.id
      /\ ~windows[lastOp'.id].isMinimized
      /\ \A w \in DOMAIN windows \ {lastOp'.id} :
           windows[w].zIndex < windows[lastOp'.id].zIndex)
     => /\ windows' = windows
        /\ nextZIndex' = nextZIndex
        /\ activeWindowId' = activeWindowId
        /\ dock' = dock]_vars

(* focusWindow was called on the active window, next to another window, and
   the last zIndex handed out is still the window's own *)
C32_Witness ==
  /\ lastOp.op = "focusWindow"
  /\ lastOp.before.wasActive
  /\ ~lastOp.before.wasMinimized
  /\ activeWindowId = lastOp.id
  /\ lastOp.id \in DOMAIN windows
  /\ windows[lastOp.id].zIndex = nextZIndex - 1
  /\ \E w \in DOMAIN windows : w # lastOp.id

(* C33: minimizeWindow(id) acts only on a window that is open and not
   minimized (Open, Maximized or Snapped): on a record that is already
   minimized, or already marked closed, it leaves every record (saved
   geometry and flags) and activeWindowId as they are *)
C33_MinimizeOnlyFromShownStates ==
  [][(/\ lastOp'.op = "minimizeWindow"
      /\ lastOp'.before.known
      /\ (lastOp'.before.wasMinimized \/ ~lastOp'.before.wasOpen))
     => /\ windows' = windows
        /\ activeWindowId' = activeWindowId]_vars

(* the dock is the one renderDock derives from the registry as it is now *)
DockIsRendered == dock = renderDock(State).dock

(* C34, as claimed: a rendered dock entry of application K is marked active
   exactly when K has the focused window and that window is open and not
   minimized, or K is essential and has an open window, or K has an open
   window and all its open windows are minimized *)
C34_DockMarkAsClaimed ==
  DockIsRendered
    => \A app \in Apps :
         dock[app].shown
           => (dock[app].active <=>
                 \/ /\ activeWindowId \in OpenRecordsOf(app)
                    /\ ~windows[activeWindowId].isMinimized
                 \/ isEssentialDock(app) /\ OpenRecordsOf(app) # {}
                 \/ /\ OpenRecordsOf(app) # {}
                    /\ \A id \in OpenRecordsOf(app) : windows[id].isMinimized)

(* C34, amended: a rendered dock entry of application K is marked active
   exactly when K has an open window (focused or not, minimized or not,
   essential or not), or the active window is a window of K that is not
   minimized, which adds the active window that is already marked closed *)
C34_DockMark ==
  DockIsRendered
    => \A app \in Apps :
         dock[app].shown
           => (dock[app].active <=>
                 \/ OpenRecordsOf(app) # {}
                 \/ /\ activeWindowId \in RecordsOf(app)
                    /\ ~windows[activeWindowId].isMinimized)

(* the rendered dock marks an application that is not essential and whose
   open window is shown but not focused: the focus is on another window *)
C34_Witness ==
  /\ DockIsRendered
  /\ \E app \in Apps :
       /\ ~isEssentialDock(app)
       /\ dock[app].shown
       /\ dock[app].active
       /\ \E id \in OpenRecordsOf(app) : ~windows[id].isMinimized
       /\ activeWindowId \in DOMAIN windows
       /\ activeWindowId \notin RecordsOf(app)

(* C36: a pointer-move of a window drag changes isSnapping of no window
   other than the one being dragged, also when another window has become
   the active one since the press *)
C36_CandidateOnlyOnDraggedWindow ==
  [][(pointer.kind = "drag" /\ lastOp'.op = "dragMove")
       => \A w \in DOMAIN windows \ {pointer.id} :
            /\ w \in DOMAIN windows'
            /\ windows'[w].isSnapping = windows[w].isSnapping]_vars

(* C37: the removal callback of a closed window clears activeWindowId if it
   still names that window; if it names another window, activeWindowId and
   that window's record (zIndex and focused mark) are as before the removal *)
C37_TimerClearsOnlyOwnFocus ==
  [][(lastOp'.op = "closeTimer" /\ timers # <<>>)
       => IF activeWindowId = Head(timers).id
          THEN activeWindowId' = null
          ELSE /\ activeWindowId' = activeWindowId
               /\ activeWindowId \in DOMAIN windows
                    => /\ activeWindowId \in DOMAIN windows'
                       /\ windows'[activeWindowId] = windows[activeWindowId]]_vars

(* a closed window has been removed while another window, raised after both
   windows were created, held the focus, and that window still holds it *)
C37_Witness ==
  /\ lastOp.op = "closeTimer"
  /\ lastOp.before.known
  /\ ~lastOp.before.wasActive
  /\ lastOp.id \notin DOMAIN windows
  /\ activeWindowId \in DOMAIN windows
  /\ windows[activeWindowId].focused
  /\ windows[activeWindowId].zIndex = nextZIndex - 1
  /\ nextZIndex = InitialZIndex + 5

(* C38: a window whose element has the 'focused' class is the window named
   by activeWindowId *)
C38_FocusedMarkIsActiveWindow ==
  \A id \in DOMAIN windows : windows[id].focused => activeWindowId = id

(* C39: while no handler is installed on document, document.body does not
   carry 'grabbing' and no element carries 'is-dragging' *)
C39_NoMarkerWithoutSession ==
  pointer.kind = "none"
    => /\ ~markers.grabbing
       /\ markers.isDragging = {}

(* C35: when the mouseup of an icon drag finds the user-created icon over
   the trash and the deletion is declined, the icon element is back where it
   was at the mousedown, the item is still among the desktop items and what
   was stored last is unchanged; when the deletion is confirmed the item is
   no longer among the desktop items *)
C35_DeclinedDropSnapsBack ==
  [][(/\ pointer.kind = "icon"
      /\ pointer.id \in desktop.items
      /\ desktop.isOverTrash)
     => /\ lastOp'.op = "iconUpDeclined"
             => /\ pointer.id \in desktop'.items
                /\ desktop'.el[pointer.id] = [left |-> pointer.c, top |-> pointer.d]
                /\ desktop'.current = desktop.current
                /\ desktop'.stored = desktop.stored
        /\ lastOp'.op = "iconUpConfirmed"
             => pointer.id \notin desktop'.items]_vars

====
